---- MODULE Spec2Model ----
(***************************************************************************)
(* Model of sofa_deriver.py: the three line rewriters, the macro          *)
(* extractor, the macro prefixer, the content auditor and the pipeline    *)
(* reprocess_sofa_tarfile that drives them.                               *)
(*                                                                        *)
(* Text.  A Python string is modelled as a sequence of atoms; an atom is  *)
(* a TLA+ string standing for exactly that piece of text.  The atoms are  *)
(* cut so that every pattern the program searches for ('iau', 'sofa',     *)
(* 'SOFA', 's o f a', 'i a u', the line markers, the macro names) is one  *)
(* atom or a run of whole atoms, and never lies inside one atom or across *)
(* two.  str.replace, str.startswith, 'x in s', str.strip and the \b..\b  *)
(* regular expressions are then computed on the atoms the way Python      *)
(* computes them on the characters.  A list of lines is a sequence of     *)
(* such strings.                                                          *)
(***************************************************************************)
EXTENDS Integers, Sequences, FiniteSets, TLC

VARIABLES
    \* configuration (arguments of reprocess_sofa_tarfile)
    libname, func_prefix, verbose, inlinetemplate, endtemplate,
    \* one rewriter call: its input, loop position and locals
    kind, inlns, pos, pc,
    outlns, inhdr, insofapart, replacedprefix, replacedspacedprefix,
    incopyright, donewheader, broke, error, trace,
    \* reprocess_sofa_tarfile: archive, loop positions and locals
    tfn, ti, ppc, macros, filecontents, fileorder, dirExists, repls,
    widx, audited, written

cfgvars == <<libname, func_prefix, verbose, inlinetemplate, endtemplate>>
rwvars == <<kind, inlns, pos, pc, outlns, inhdr, insofapart, replacedprefix,
            replacedspacedprefix, incopyright, donewheader, broke, error, trace>>
pipevars == <<tfn, ti, ppc, macros, filecontents, fileorder, dirExists,
              repls, widx, audited, written>>
vars == <<cfgvars, rwvars, pipevars>>

----------------------------------------------------------------------------
\* Bounds of the model.

\* Longest input line sequence given to one reprocess_sofa_c_lines call.
MaxCLines == 4

\* Longest input line sequence given to one reprocess_sofa_h_lines call.
MaxHLines == 5

\* Largest number of entries of the archive.
MaxEntries == 3

\* Longest input line sequence given to one reprocess_sofa_test_lines call.
MaxTLines == 5

\* Longest input line sequence of a call with any function prefix.
MaxSLines == 5

\* Longest input line sequence of a call when all three rewriters are run
\* to their end.
MaxRLines == 3

----------------------------------------------------------------------------
\* Strings as atom sequences.

\* Atoms made of white space only (what str.strip removes, what \s matches).
WS == {" ", "  ", "   ", "\n"}

\* 'x in s'
Contains(s, a) == \E i \in 1..Len(s) : s[i] = a

\* s.startswith(p)
StartsWith(s, p) == Len(s) >= Len(p) /\ SubSeq(s, 1, Len(p)) = p

\* s.endswith(p)
EndsWith(s, p) ==
    Len(s) >= Len(p) /\ SubSeq(s, Len(s) - Len(p) + 1, Len(s)) = p

\* s.replace(old, new) for a one-atom pattern; new = "" deletes the pattern.
Replace(s, old, new) ==
    IF new = "" THEN SelectSeq(s, LAMBDA a : a # old)
    ELSE [i \in 1..Len(s) |-> IF s[i] = old THEN new ELSE s[i]]

\* s.strip(): leading and trailing white space removed.
Strip(s) ==
    LET nonws == {i \in 1..Len(s) : s[i] \notin WS}
    IN IF nonws = {} THEN <<>>
       ELSE LET lo == CHOOSE i \in nonws : \A j \in nonws : i <= j
                hi == CHOOSE i \in nonws : \A j \in nonws : j <= i
            IN SubSeq(s, lo, hi)

\* ''.join(lines)
RECURSIVE Join(_)
Join(lines) ==
    IF lines = <<>> THEN <<>> ELSE Head(lines) \o Join(Tail(lines))

\* str.upper() and str.lower() of the one-atom names the program converts.
Upper(a) ==
    CASE a = "erfa" -> "ERFA"
      [] a = "foo"  -> "FOO"
      [] a = "sofa" -> "SOFA"
      [] a = "Sofa" -> "SOFA"
      [] a = "dint" -> "DINT"
      [] OTHER -> a

Lower(a) ==
    CASE a = "ERFA" -> "erfa"
      [] a = "FOO"  -> "foo"
      [] a = "SOFA" -> "sofa"
      [] a = "Sofa" -> "sofa"
      [] a = "DPI"  -> "dpi"
      [] a = "X"    -> "x"
      [] a = "MHDEF" -> "mhdef"
      [] OTHER -> a

\* ' '.join(name): the name letter by letter with spaces.
Spaced(a) ==
    CASE a = "erfa" -> "e r f a"
      [] a = "foo"  -> "f o o"
      [] a = "era"  -> "e r a"
      [] OTHER -> a

----------------------------------------------------------------------------
\* The line markers the rewriters test with startswith.

Dashes70 == "----------------------------------------------------------------------"
DashedRule == <<"/*", Dashes70>>
DocMarker == <<"**">>
CloseComment == <<"*/">>
StatusMarker == <<"**", "  Status:">>
RevisionMarker == <<"**", "  This revision:">>
FunctionPartMarker ==
    <<"**", "  This function is part of the International Astronomical Union">>
FilePartMarker ==
    <<"**", "  This file is part of the International Astronomical Union">>
ReleaseMarker == <<"**", "  ", "SOFA", " release">>

\* The year put into the license templates.
copyrightyear == "2024"

\* inlinelicensestr after rendering: DEFAULT_INLINE_LICENSE_STR formatted,
\* every line prefixed with '**  ', one string of two lines.
InlineLicense ==
    <<"**  Copyright (C) 2013-", copyrightyear, ", NumFOCUS Foundation.\n",
      "**  Derived, with permission, from the ", "SOFA",
      " library.  See notes at end of file.\n">>

\* The license templates and str.format (lines 20-86, 123-127).  A
\* replacement field is one atom.

\* DEFAULT_INLINE_LICENSE_STR
DEFAULT_INLINE_LICENSE_STR ==
    <<"Copyright (C) 2013-", "{curryr}", ", NumFOCUS Foundation.\n",
      "Derived, with permission, from the ", "SOFA",
      " library.  See notes at end of file.">>

\* DEFAULT_FILE_END_LICENSE_STR, cut down like EndLicense below.
DEFAULT_FILE_END_LICENSE_STR ==
    <<"\n\nCopyright (C) 2013-", "{curryr}",
      ", NumFOCUS Foundation.\nAll rights reserved.\n\nThe ",
      "{libnameuppercase}",
      " version is intended to retain identical functionality to\nthe ",
      "SOFA", " library, but made distinct through different function and\n">>

\* The replacement fields a template of the model can hold, and those that
\* the keyword arguments of the format calls resolve.
Fields == {"{libnameuppercase}", "{curryr}", "{author}"}
KnownFields == {"{libnameuppercase}", "{curryr}"}

\* Mutant of format_raises: a field without a keyword argument is left as
\* it stands.
format_raises_never(template) == FALSE

\* template.format(libnameuppercase=..., curryr=...) raises KeyError: the
\* template has a field that is none of the keyword arguments.
format_raises(template) ==
    \E i \in 1..Len(template) : template[i] \in Fields \ KnownFields

\* The templates a run is given: the default ones, as they are or with a
\* field that cannot be resolved.  InlineLicense above and EndLicense below
\* are the default ones rendered.
InlineTemplates ==
    {DEFAULT_INLINE_LICENSE_STR,
     DEFAULT_INLINE_LICENSE_STR \o <<"\n", "{author}">>}
EndTemplates ==
    {DEFAULT_FILE_END_LICENSE_STR,
     DEFAULT_FILE_END_LICENSE_STR \o <<"{author}", "\n">>}

----------------------------------------------------------------------------
\* reprocess_sofa_c_lines: the Implementation rewriter.

\* Mutant of c_init: the call starts inside the copyright block.
c_init_incopyright ==
    [outlns |-> <<>>, inhdr |-> TRUE, insofapart |-> FALSE,
     replacedprefix |-> FALSE, replacedspacedprefix |-> FALSE,
     incopyright |-> TRUE, donewheader |-> FALSE,
     broke |-> FALSE, error |-> FALSE]

\* The locals of the loop before the first line.
c_init ==
    [outlns |-> <<>>, inhdr |-> TRUE, insofapart |-> FALSE,
     replacedprefix |-> FALSE, replacedspacedprefix |-> FALSE,
     incopyright |-> FALSE, donewheader |-> FALSE,
     broke |-> FALSE, error |-> FALSE]

\* The branch of the if/elif chain that takes line ln in state st.
c_rule(st, ln) ==
    IF st.inhdr
    THEN (IF (~st.replacedprefix) /\ Contains(ln, "iau")
          THEN "hdr_end" ELSE "hdr_pass")
    ELSE IF st.insofapart THEN "sofapart"
    ELSE IF StartsWith(ln, FunctionPartMarker) THEN "sofapart_enter"
    ELSE IF StartsWith(ln, StatusMarker) THEN "status"
    ELSE IF (~st.replacedspacedprefix) /\ Contains(ln, "i a u") THEN "spaced"
    ELSE IF st.incopyright THEN "copyright"
    ELSE IF StartsWith(ln, DashedRule) THEN "dashed"
    ELSE IF StartsWith(ln, RevisionMarker) THEN "revision"
    ELSE "body"

\* Mutant of c_hdr_end: the line is rewritten but the header is not left and
\* the one-shot guard is not set.
c_hdr_end_stays(st, ln, fprefix) ==
    [st EXCEPT !.outlns = Append(@, Replace(ln, "iau", fprefix))]

\* Mutant of c_hdr_end: the token is taken out and no prefix is put in.
c_hdr_end_unprefixed(st, ln, fprefix) ==
    [st EXCEPT !.outlns = Append(@, Replace(ln, "iau", "")),
               !.replacedprefix = TRUE,
               !.inhdr = FALSE]

\* The function definition line that ends the header (lines 255-259).
c_hdr_end(st, ln, fprefix) ==
    [st EXCEPT !.outlns = Append(@, Replace(ln, "iau", fprefix)),
               !.replacedprefix = TRUE,
               !.inhdr = FALSE]

\* Any other header line (lines 260-262).
c_hdr_pass(st, ln, lib) ==
    [st EXCEPT !.outlns =
        Append(@, Replace(Replace(ln, "sofa", Lower(lib)), "SOFA", Upper(lib)))]

\* Inside the SOFA disclaimer (lines 263-266).
c_sofapart(st, ln) ==
    IF Strip(ln) = <<"**">> THEN [st EXCEPT !.insofapart = FALSE] ELSE st

\* The line that opens the SOFA disclaimer (lines 267-268).
c_sofapart_enter(st) == [st EXCEPT !.insofapart = TRUE]

\* Mutant of c_status: the line before a 'Status:' line is never removed.
c_status_noretract(st) ==
    IF st.outlns = <<>> THEN [st EXCEPT !.error = TRUE] ELSE st

\* Mutant of c_status: the line before a 'Status:' line is removed whatever
\* it is.
c_status_pop_always(st) ==
    IF st.outlns = <<>>
    THEN [st EXCEPT !.error = TRUE]
    ELSE [st EXCEPT !.outlns = SubSeq(@, 1, Len(@) - 1)]

\* A 'Status:' line (lines 269-274); outlns[-1] of an empty list raises.
c_status(st) ==
    IF st.outlns = <<>>
    THEN [st EXCEPT !.error = TRUE]
    ELSE IF Strip(st.outlns[Len(st.outlns)]) = <<"**">>
         THEN [st EXCEPT !.outlns = SubSeq(@, 1, Len(@) - 1)]
         ELSE st

\* The first line with the letter-spaced prefix (lines 275-277).
c_spaced(st, ln, fprefix) ==
    [st EXCEPT !.outlns = Append(@, Replace(ln, "i a u", Spaced(fprefix))),
               !.replacedspacedprefix = TRUE]

\* Mutant of c_copyright: every line of the copyright part is emitted.
c_copyright_emit_all(st, ln) ==
    IF StartsWith(ln, CloseComment)
    THEN [st EXCEPT !.incopyright = FALSE, !.outlns = Append(@, ln)]
    ELSE [st EXCEPT !.outlns = Append(@, ln)]

\* Inside the copyright/revision part (lines 278-282).
c_copyright(st, ln) ==
    IF StartsWith(ln, CloseComment)
    THEN [st EXCEPT !.incopyright = FALSE, !.outlns = Append(@, ln)]
    ELSE st

\* Mutant of c_dashed: the closing brace is emitted but the loop goes on.
c_dashed_nobreak(st) ==
    [st EXCEPT !.outlns = Append(@, <<"}", "\n">>)]

\* The dashed rule that opens the license section (lines 283-288).
c_dashed(st) ==
    [st EXCEPT !.outlns = Append(@, <<"}", "\n">>), !.broke = TRUE]

\* Mutant of c_revision: the license block follows the line directly.
c_revision_no_separator(st, ln, inlinelicensestr) ==
    [st EXCEPT !.incopyright = TRUE,
               !.outlns = IF inlinelicensestr # <<>>
                          THEN @ \o <<ln, inlinelicensestr>>
                          ELSE Append(@, ln)]

\* The 'This revision:' line (lines 289-297).
c_revision(st, ln, inlinelicensestr) ==
    [st EXCEPT !.incopyright = TRUE,
               !.outlns = IF inlinelicensestr # <<>>
                          THEN @ \o <<ln, <<"**", "\n">>, inlinelicensestr>>
                          ELSE Append(@, ln)]

\* Any other line of the body (lines 298-302).
c_body(st, ln, fprefix, lib) ==
    [st EXCEPT !.outlns =
        Append(@, Replace(Replace(Replace(ln, "iau", fprefix), "sofa", lib),
                          "SOFA", Upper(lib)))]

\* One pass of the loop body on line ln.
c_step(st, ln, fprefix, lib, inlinelicensestr) ==
    LET rule == c_rule(st, ln) IN
    CASE rule = "hdr_end" -> c_hdr_end(st, ln, fprefix)
      [] rule = "hdr_pass" -> c_hdr_pass(st, ln, lib)
      [] rule = "sofapart" -> c_sofapart(st, ln)
      [] rule = "sofapart_enter" -> c_sofapart_enter(st)
      [] rule = "status" -> c_status(st)
      [] rule = "spaced" -> c_spaced(st, ln, fprefix)
      [] rule = "copyright" -> c_copyright(st, ln)
      [] rule = "dashed" -> c_dashed(st)
      [] rule = "revision" -> c_revision(st, ln, inlinelicensestr)
      [] OTHER -> c_body(st, ln, fprefix, lib)

\* The whole call: the loop over inlns, left at a break or an exception.
RECURSIVE c_loop(_, _, _, _, _)
c_loop(st, lns, fprefix, lib, inlinelicensestr) ==
    IF lns = <<>> \/ st.broke \/ st.error THEN st
    ELSE c_loop(c_step(st, Head(lns), fprefix, lib, inlinelicensestr),
                Tail(lns), fprefix, lib, inlinelicensestr)

reprocess_sofa_c_lines(lns, fprefix, lib, inlinelicensestr) ==
    c_loop(c_init, lns, fprefix, lib, inlinelicensestr).outlns

----------------------------------------------------------------------------
\* reprocess_sofa_h_lines: the Header rewriter.

\* The locals of the loop before the first line (the fields the function
\* does not have keep their c_init values and are never read).
h_init == [c_init EXCEPT !.inhdr = FALSE]

\* The branch of the if/elif chain that takes line ln in state st.
h_rule(st, ln) ==
    IF StartsWith(ln, <<"#">>) THEN "hash"
    ELSE IF StartsWith(ln, DocMarker)
    THEN (IF st.donewheader THEN "doc_drop"
          ELSE IF StartsWith(ln, FilePartMarker) THEN "doc_license"
          ELSE IF Contains(ln, "s o f a") THEN "doc_spaced"
          ELSE "doc_pass")
    ELSE IF StartsWith(ln, DashedRule) THEN "dashed"
    ELSE "other"

\* A preprocessor line (lines 216-219).
h_hash(st, ln, lib) ==
    [st EXCEPT !.outlns =
        Append(@, Replace(Replace(ln, "SOFA", Upper(lib)), "sofa", Lower(lib)))]

\* Mutant of h_doc_license: the license is emitted but donewheader is not
\* set.
h_doc_license_not_done(st, inlinelicensestr) ==
    [st EXCEPT !.outlns = Append(@, inlinelicensestr)]

\* The attribution sentinel (lines 222-226).
h_doc_license(st, inlinelicensestr) ==
    [st EXCEPT !.donewheader = TRUE, !.outlns = Append(@, inlinelicensestr)]

\* A comment line with the letter-spaced project name (lines 227-228).
h_doc_spaced(st, ln, lib) ==
    [st EXCEPT !.outlns = Append(@, Replace(ln, "s o f a", Spaced(Lower(lib))))]

\* Mutant of h_doc_pass: the comment line is not appended.
h_doc_pass_dropped(st, ln, lib) == st

\* Any other comment line before the sentinel (lines 229-230).
h_doc_pass(st, ln, lib) ==
    [st EXCEPT !.outlns = Append(@, Replace(ln, "SOFA", Upper(lib)))]

\* Mutant of h_dashed: the blank line is emitted but the loop goes on.
h_dashed_nobreak(st) ==
    [st EXCEPT !.outlns = Append(@, <<"\n">>)]

\* The dashed rule that opens the license section (lines 232-235).
h_dashed(st) ==
    [st EXCEPT !.outlns = Append(@, <<"\n">>), !.broke = TRUE]

\* Any other line (lines 236-237).
h_other(st, ln, fprefix) ==
    [st EXCEPT !.outlns = Append(@, Replace(ln, "iau", fprefix))]

\* One pass of the loop body on line ln; a comment line after the sentinel
\* matches no inner branch and is dropped (line 221).
h_step(st, ln, fprefix, lib, inlinelicensestr) ==
    LET rule == h_rule(st, ln) IN
    CASE rule = "hash" -> h_hash(st, ln, lib)
      [] rule = "doc_drop" -> st
      [] rule = "doc_license" -> h_doc_license(st, inlinelicensestr)
      [] rule = "doc_spaced" -> h_doc_spaced(st, ln, lib)
      [] rule = "doc_pass" -> h_doc_pass(st, ln, lib)
      [] rule = "dashed" -> h_dashed(st)
      [] OTHER -> h_other(st, ln, fprefix)

RECURSIVE h_loop(_, _, _, _, _)
h_loop(st, lns, fprefix, lib, inlinelicensestr) ==
    IF lns = <<>> \/ st.broke \/ st.error THEN st
    ELSE h_loop(h_step(st, Head(lns), fprefix, lib, inlinelicensestr),
                Tail(lns), fprefix, lib, inlinelicensestr)

reprocess_sofa_h_lines(lns, fprefix, lib, inlinelicensestr) ==
    h_loop(h_init, lns, fprefix, lib, inlinelicensestr).outlns

----------------------------------------------------------------------------
\* reprocess_sofa_test_lines: the Test rewriter.

t_init == c_init

\* The path through the loop body that line ln takes in state st.
t_rule(st, ln) ==
    IF st.inhdr
    THEN (IF st.insofapart \/ StartsWith(ln, ReleaseMarker)
          THEN (IF StartsWith(ln, CloseComment)
                THEN "release_close" ELSE "release_drop")
          ELSE "hdr_emit")
    ELSE IF StartsWith(ln, DashedRule) THEN "dashed"
    ELSE "body"

\* The three replacements every emitted line goes through (lines 334-336).
t_replace(ln, fprefix, lib) ==
    Replace(Replace(Replace(ln, "iau", fprefix), "sofa", Lower(lib)),
            "SOFA", Upper(lib))

\* Mutant of t_release_close: the notice is left but not the header.
t_release_close_keeps_header(st, ln) ==
    [st EXCEPT !.insofapart = FALSE, !.outlns = Append(@, ln)]

\* The line that closes the comment of the release notice (lines 322-325).
t_release_close(st, ln) ==
    [st EXCEPT !.insofapart = FALSE, !.inhdr = FALSE,
               !.outlns = Append(@, ln)]

\* The release sentinel and every other line of the notice (lines 318-325).
t_release_drop(st) == [st EXCEPT !.insofapart = TRUE]

\* A header line outside the release notice (lines 327, 334-338).
t_hdr_emit(st, ln, fprefix, lib) ==
    [st EXCEPT !.outlns =
        Append(@, t_replace(Replace(ln, "s o f a", Spaced(lib)), fprefix, lib))]

\* Mutant of t_dashed: the line is left out but the loop goes on.
t_dashed_nobreak(st) == st

\* The dashed rule behind the header (lines 329-332).
t_dashed(st) == [st EXCEPT !.broke = TRUE]

\* Any other line behind the header (lines 334-338).
t_body(st, ln, fprefix, lib) ==
    [st EXCEPT !.outlns = Append(@, t_replace(ln, fprefix, lib))]

\* One pass of the loop body on line ln.
t_step(st, ln, fprefix, lib, inlinelicensestr) ==
    LET rule == t_rule(st, ln) IN
    CASE rule = "release_close" -> t_release_close(st, ln)
      [] rule = "release_drop" -> t_release_drop(st)
      [] rule = "hdr_emit" -> t_hdr_emit(st, ln, fprefix, lib)
      [] rule = "dashed" -> t_dashed(st)
      [] OTHER -> t_body(st, ln, fprefix, lib)

RECURSIVE t_loop(_, _, _, _, _)
t_loop(st, lns, fprefix, lib, inlinelicensestr) ==
    IF lns = <<>> \/ st.broke \/ st.error THEN st
    ELSE t_loop(t_step(st, Head(lns), fprefix, lib, inlinelicensestr),
                Tail(lns), fprefix, lib, inlinelicensestr)

reprocess_sofa_test_lines(lns, fprefix, lib, inlinelicensestr) ==
    t_loop(t_init, lns, fprefix, lib, inlinelicensestr).outlns

----------------------------------------------------------------------------
\* One rewriter call as a state machine: the for loop reads inlns one line
\* at a time; pos is the number of lines read, trace the branch that took
\* each of them.

\* All sequences over S of length at most n.
BSeq(S, n) == UNION {[1..k -> S] : k \in 0..n}

\* The locals of the running call as one record, and back.
Locals ==
    [outlns |-> outlns, inhdr |-> inhdr, insofapart |-> insofapart,
     replacedprefix |-> replacedprefix,
     replacedspacedprefix |-> replacedspacedprefix,
     incopyright |-> incopyright, donewheader |-> donewheader,
     broke |-> broke, error |-> error]

SetLocals(st) ==
    /\ outlns' = st.outlns
    /\ inhdr' = st.inhdr
    /\ insofapart' = st.insofapart
    /\ replacedprefix' = st.replacedprefix
    /\ replacedspacedprefix' = st.replacedspacedprefix
    /\ incopyright' = st.incopyright
    /\ donewheader' = st.donewheader
    /\ broke' = st.broke
    /\ error' = st.error

\* No pipeline is running during a single rewriter call.
PipeIdle ==
    /\ tfn = <<>> /\ ti = 0 /\ ppc = "idle" /\ macros = <<>>
    /\ filecontents = <<>> /\ fileorder = <<>> /\ dirExists = FALSE
    /\ repls = <<>> /\ widx = 0 /\ audited = <<>> /\ written = <<>>

\* Input lines of an Implementation artifact.
CFuncDef == <<"void ", "iau", "Foo", "(", "sofa", "_", "SOFA", ")\n">>
CBare == <<"**", "\n">>
CFunctionPart == FunctionPartMarker \o <<"'s ", "SOFA", " software collection.\n">>
CStatus == StatusMarker \o <<"  canonical.\n">>
CSpaced == <<"**", "  ", "i a u", " F o o\n">>
CRevision == RevisionMarker \o <<"  2021 May 11\n">>
CClose == <<"*/", "\n">>
CDashed == DashedRule \o <<"\n">>
CDashedSpaced == DashedRule \o <<" ", "i a u", "\n">>
CLines == {CFuncDef, CBare, CFunctionPart, CStatus, CSpaced, CRevision,
           CClose, CDashed, CDashedSpaced}

RwInit(k, st, Lines, n) ==
    /\ libname = "erfa" /\ func_prefix = "era" /\ verbose = TRUE
    /\ inlinetemplate = DEFAULT_INLINE_LICENSE_STR
    /\ endtemplate = DEFAULT_FILE_END_LICENSE_STR
    /\ kind = k
    /\ inlns \in BSeq(Lines, n)
    /\ pos = 0 /\ pc = "loop" /\ trace = <<>>
    /\ outlns = st.outlns /\ inhdr = st.inhdr /\ insofapart = st.insofapart
    /\ replacedprefix = st.replacedprefix
    /\ replacedspacedprefix = st.replacedspacedprefix
    /\ incopyright = st.incopyright /\ donewheader = st.donewheader
    /\ broke = st.broke /\ error = st.error
    /\ PipeIdle

\* The loop takes the next line.
RwLine(rule, st) ==
    /\ pc = "loop" /\ ~broke /\ pos < Len(inlns)
    /\ SetLocals(st)
    /\ pos' = pos + 1
    /\ trace' = Append(trace, rule)
    /\ pc' = IF st.error THEN "raised" ELSE "loop"
    /\ UNCHANGED <<kind, inlns, cfgvars, pipevars>>

\* The loop is over (input exhausted, or left by break): return outlns.
RwReturn ==
    /\ pc = "loop" /\ (broke \/ pos = Len(inlns))
    /\ pc' = "returned"
    /\ UNCHANGED <<kind, inlns, pos, outlns, inhdr, insofapart, replacedprefix,
                   replacedspacedprefix, incopyright, donewheader, broke,
                   error, trace, cfgvars, pipevars>>

CInit == RwInit("c", c_init, CLines, MaxCLines)

CLine ==
    /\ kind = "c" /\ pos < Len(inlns)
    /\ RwLine(c_rule(Locals, inlns[pos + 1]),
              c_step(Locals, inlns[pos + 1], func_prefix, libname, InlineLicense))

CReturn == kind = "c" /\ RwReturn

CNext == CLine \/ CReturn

SpecC == CInit /\ [][CNext]_vars

\* Calls of the Implementation rewriter with any function prefix, the empty
\* one included, on the lines that the 'Status:' rule works on.
FuncPrefixes == {"era", ""}
CBareDef == <<"**", "iau", "\n">>
SLines == {CFuncDef, CBareDef, CBare, CStatus, CFunctionPart}

SInit ==
    /\ libname = "erfa" /\ func_prefix \in FuncPrefixes /\ verbose = TRUE
    /\ inlinetemplate = DEFAULT_INLINE_LICENSE_STR
    /\ endtemplate = DEFAULT_FILE_END_LICENSE_STR
    /\ kind = "c"
    /\ inlns \in BSeq(SLines, MaxSLines)
    /\ pos = 0 /\ pc = "loop" /\ trace = <<>>
    /\ outlns = c_init.outlns /\ inhdr = c_init.inhdr
    /\ insofapart = c_init.insofapart
    /\ replacedprefix = c_init.replacedprefix
    /\ replacedspacedprefix = c_init.replacedspacedprefix
    /\ incopyright = c_init.incopyright /\ donewheader = c_init.donewheader
    /\ broke = c_init.broke /\ error = c_init.error
    /\ PipeIdle

SpecS == SInit /\ [][CNext]_vars

\* Input lines of a Header artifact.
HDefine == <<"#", "define", " ", "SOFA", "_VERSION", " 1\n">>
HFilePart == FilePartMarker \o <<"'s ", "SOFA", " software collection.\n">>
HDoc == <<"**", "  ", "SOFA", " and ", "sofa", " notes\n">>
HSpaced == <<"**", "  ", "s o f a", " ", "SOFA", "\n">>
HDecl == <<"void ", "iau", "Foo", "(void);\n">>
HDashed == DashedRule \o <<"\n">>
HStuff == <<"stuff", "\n">>
HLines == {HDefine, HFilePart, HDoc, HSpaced, HDecl, HDashed, HStuff}

HInit == RwInit("h", h_init, HLines, MaxHLines)

HLine ==
    /\ kind = "h" /\ pos < Len(inlns)
    /\ RwLine(h_rule(Locals, inlns[pos + 1]),
              h_step(Locals, inlns[pos + 1], func_prefix, libname, InlineLicense))

HReturn == kind = "h" /\ RwReturn

HNext == HLine \/ HReturn

SpecH == HInit /\ [][HNext]_vars

\* Input lines of the Test artifact.
TRelease == ReleaseMarker \o <<" 2021\n">>
TNotice == <<"**", "  ", "sofa", " notice ", "iau", "\n">>
TCloseNote == <<"*/", " ", "sofa", "\n">>
TSpaced == <<"**", "  ", "s o f a", " ", "SOFA", "\n">>
TCall == <<"   ", "iau", "Foo", "(", "sofa", ", ", "SOFA", ");\n">>
TDashed == DashedRule \o <<"\n">>
TLines == {TRelease, TNotice, TCloseNote, TSpaced, TCall, TDashed}

TInit == RwInit("t", t_init, TLines, MaxTLines)

TLine ==
    /\ kind = "t" /\ pos < Len(inlns)
    /\ RwLine(t_rule(Locals, inlns[pos + 1]),
              t_step(Locals, inlns[pos + 1], func_prefix, libname, InlineLicense))

TReturn == kind = "t" /\ RwReturn

TNext == TLine \/ TReturn

SpecT == TInit /\ [][TNext]_vars

\* A call of any of the three rewriters, from its entry to its return.
\* The for loop is a sequential loop over a finite list, so a step that can
\* be taken is taken.
RStart ==
    /\ libname = "erfa" /\ func_prefix = "era" /\ verbose = TRUE
    /\ inlinetemplate = DEFAULT_INLINE_LICENSE_STR
    /\ endtemplate = DEFAULT_FILE_END_LICENSE_STR
    /\ kind = "none" /\ inlns = <<>>
    /\ pos = 0 /\ pc = "start" /\ trace = <<>>
    /\ outlns = <<>> /\ inhdr = FALSE /\ insofapart = FALSE
    /\ replacedprefix = FALSE /\ replacedspacedprefix = FALSE
    /\ incopyright = FALSE /\ donewheader = FALSE /\ broke = FALSE
    /\ error = FALSE
    /\ PipeIdle

\* The function is entered with its input; the locals are initialised.
RCall ==
    /\ pc = "start"
    /\ \E c \in { [k |-> "c", st |-> c_init, Lines |-> CLines],
                   [k |-> "h", st |-> h_init, Lines |-> HLines],
                   [k |-> "t", st |-> t_init, Lines |-> TLines] } :
          /\ kind' = c.k
          /\ inlns' \in BSeq(c.Lines, MaxRLines)
          /\ SetLocals(c.st)
    /\ pc' = "loop"
    /\ UNCHANGED <<pos, trace, cfgvars, pipevars>>

RNext == RCall \/ CNext \/ HNext \/ TNext

SpecR == RStart /\ [][RNext]_vars /\ WF_vars(RNext)

----------------------------------------------------------------------------
\* Words and word boundaries (\w and \b of the regular expressions).

\* Atoms made of word characters only.
WordAtoms ==
    {"iau", "era", "Foo", "sofa", "SOFA", "Sofa", "erfa", "ERFA", "foo", "FOO",
     "DPI", "X", "dint", "DINT", "MHDEF", "_", "_VERSION", "define", "ifndef",
     "stuff", "A", copyrightyear}

\* Atoms whose first character is a word character.
StartsWord(a) ==
    a \in WordAtoms \cup {"void ", "i a u", "s o f a", "e r f a", "e r a", "f o o"}

\* Atoms whose last character is a word character.
EndsWord(a) ==
    a \in WordAtoms \cup
        {"i a u", "s o f a", "e r f a", "e r a", "f o o",
         "  This function is part of the International Astronomical Union",
         "  This file is part of the International Astronomical Union"}

\* \b at position p of text: between text[p-1] and text[p].
Boundary(text, p) ==
    (p > 1 /\ EndsWord(text[p - 1])) # (p <= Len(text) /\ StartsWord(text[p]))

\* Length of the longest run of word atoms at the head of s (greedy \w*).
RECURSIVE WordRun(_)
WordRun(s) ==
    IF s # <<>> /\ Head(s) \in WordAtoms THEN 1 + WordRun(Tail(s)) ELSE 0

\* s without its leading white space (greedy \s*).
RECURSIVE SkipWS(_)
SkipWS(s) == IF s # <<>> /\ Head(s) \in WS THEN SkipWS(Tail(s)) ELSE s

----------------------------------------------------------------------------
\* extract_macro_names.

\* prog.match(line) for prog = \s*#\s*define\s*\b(\w*)\b: <<group(1)>> if
\* the line matches, <<>> if it does not.  After 'define' a word character
\* cannot follow at once (\b fails); otherwise the name is the word after
\* the white space, or the empty string if no word follows.
macro_match(line) ==
    LET a == SkipWS(line) IN
    IF a = <<>> \/ Head(a) # "#" THEN <<>>
    ELSE LET b == SkipWS(Tail(a)) IN
         IF b = <<>> \/ Head(b) # "define" THEN <<>>
         ELSE LET r == Tail(b) IN
              IF r # <<>> /\ StartsWord(Head(r)) THEN <<>>
              ELSE LET w == SkipWS(r) IN << SubSeq(w, 1, WordRun(w)) >>

RECURSIVE extract_macro_names(_, _)
extract_macro_names(m, exclude) ==
    IF m = <<>> THEN <<>>
    ELSE LET result == macro_match(Head(m))
             rest == extract_macro_names(Tail(m), exclude)
         IN IF result # <<>> /\ result[1] \notin exclude
            THEN <<result[1]>> \o rest
            ELSE rest

\* macros_exclude (line 136): SOFAMHDEF.
macros_exclude == { <<"SOFA", "MHDEF">> }

----------------------------------------------------------------------------
\* The macro prefixer (lines 179-198).

\* prefix_macro: the matched name upper-cased behind 'ERFA_'.
prefix_macro(match) ==
    <<"ERFA", "_">> \o [i \in 1..Len(match) |-> Upper(match[i])]

\* re.compile(r'\b%s\b' % macro) matches at position i of text.
MatchAt(text, macro, i) ==
    /\ i + Len(macro) - 1 <= Len(text)
    /\ SubSeq(text, i, i + Len(macro) - 1) = macro
    /\ Boundary(text, i)
    /\ Boundary(text, i + Len(macro))

\* repl.sub(prefix_macro, text) from position i on: leftmost matches, not
\* overlapping; an empty match is replaced and the next atom copied.
RECURSIVE re_sub(_, _, _)
re_sub(macro, text, i) ==
    IF i > Len(text) + 1 THEN <<>>
    ELSE IF MatchAt(text, macro, i)
         THEN IF macro = <<>>
              THEN prefix_macro(macro)
                   \o (IF i <= Len(text) THEN <<text[i]>> ELSE <<>>)
                   \o re_sub(macro, text, i + 1)
              ELSE prefix_macro(macro) \o re_sub(macro, text, i + Len(macro))
         ELSE (IF i <= Len(text) THEN <<text[i]>> ELSE <<>>)
              \o re_sub(macro, text, i + 1)

\* for repl in repls: alllines = repl.sub(prefix_macro, alllines)
RECURSIVE prefix_all(_, _)
prefix_all(alllines, rs) ==
    IF rs = <<>> THEN alllines
    ELSE prefix_all(re_sub(Head(rs), alllines, 1), Tail(rs))

----------------------------------------------------------------------------
\* check_for_sofa: the indices (from 0) of the elements of lns it warns of.

\* ACCEPTSOFASTRS[0] in ln
AcceptedIn(ln) ==
    \E i \in 1..(Len(ln) - 2) :
        /\ ln[i] = "**  Derived, with permission, from the "
        /\ ln[i + 1] = "SOFA"
        /\ ln[i + 2] = " library.  See notes at end of file.\n"

check_for_sofa(lns) ==
    {i - 1 : i \in {j \in 1..Len(lns) :
                        /\ \E k \in 1..Len(lns[j]) : Lower(lns[j][k]) = "sofa"
                        /\ ~AcceptedIn(lns[j])}}

----------------------------------------------------------------------------
\* reprocess_sofa_tarfile.

\* endlicensestr after rendering (lines 126-129): the dashed rule, the
\* license text with every line behind '**  ', the end of the comment.
\* The text is cut down to the sentences that name SOFA and the library.
EndLicense(lib) ==
    <<"/*", Dashes70, "\n",
      "**  \n**  Copyright (C) 2013-", copyrightyear,
      ", NumFOCUS Foundation.\n**  All rights reserved.\n**  \n**  The ",
      Upper(lib),
      " version is intended to retain identical functionality to\n**  the ",
      "SOFA", " library, but made distinct through different function and\n",
      "*/", "\n">>

\* Mutant of classify: the last branch is an else, not a test for '.c'.
classify_else_impl(name) ==
    IF EndsWith(name, <<"t_", "sofa", "_c", ".c">>) THEN "test"
    ELSE IF EndsWith(name, <<".h">>) THEN "header"
    ELSE "impl"

\* The kind of an archive entry, by the tests of lines 141-155.
classify(name) ==
    IF EndsWith(name, <<"t_", "sofa", "_c", ".c">>) THEN "test"
    ELSE IF EndsWith(name, <<".h">>) THEN "header"
    ELSE IF EndsWith(name, <<".c">>) THEN "impl"
    ELSE "other"

\* ti.name.endswith('sofam.h')
is_macro_header(name) == EndsWith(name, <<"sofa", "m", ".h">>)

\* ti.name.split('/')[-1]
RECURSIVE Basename(_)
Basename(name) ==
    IF Contains(name, "/") THEN Basename(Tail(name)) ELSE name

\* Mutant of output_name: the project token is replaced in any case.
output_name_anycase(name, lib) ==
    Replace(Replace(Replace(Basename(name), "sofa", Lower(lib)),
                    "SOFA", Lower(lib)),
            "Sofa", Lower(lib))

\* The key under which the contents are stored (line 163).
output_name(name, lib) == Replace(Basename(name), "sofa", Lower(lib))

\* The rewriter call of the entry's kind (lines 143-159).
rewrite(k, lines, fprefix, lib, inlinelicensestr) ==
    CASE k = "test" ->
            reprocess_sofa_test_lines(lines, fprefix, lib, inlinelicensestr)
      [] k = "header" ->
            reprocess_sofa_h_lines(lines, fprefix, lib, inlinelicensestr)
      [] k = "impl" ->
            reprocess_sofa_c_lines(lines, fprefix, lib, inlinelicensestr)

\* Mutant of scan_macros: the registry is assigned once and then kept.
scan_macros_write_once(ms, name, lines) ==
    IF classify(name) = "header" /\ is_macro_header(name) /\ ms = <<>>
    THEN extract_macro_names(lines, macros_exclude)
    ELSE ms

\* macros after an archive entry has been read (lines 147-150): assigned
\* anew from every header whose name ends in 'sofam.h'.
scan_macros(ms, name, lines) ==
    IF classify(name) = "header" /\ is_macro_header(name)
    THEN extract_macro_names(lines, macros_exclude)
    ELSE ms

\* Mutant of compile_repls: the patterns are compiled before the loop over
\* the archive, when macros is still the empty list of line 135.
compile_repls_early(ms) == <<>>

\* repls (line 186): one pattern for each macro name, compiled after the
\* loop over the archive.  A pattern is modelled by the name it matches.
compile_repls(ms) == ms

\* Mutant of audit_arg: the lines are audited with the macros prefixed.
audit_arg_prefixed(lines, rs) ==
    [i \in 1..Len(lines) |-> prefix_all(lines[i], rs)]

\* What check_for_sofa is given for a file (line 192): the stored lines.
audit_arg(lines, rs) == lines

\* Mutant of file_text: the end license is appended before the macros are
\* prefixed.
file_text_license_first(lines, rs, endlicensestr) ==
    prefix_all(Join(lines) \o endlicensestr, rs)

\* What is written to a file (lines 194-204): the joined lines with every
\* macro prefixed, then the end license.
file_text(lines, rs, endlicensestr) ==
    prefix_all(Join(lines), rs) \o endlicensestr

\* Archive entries: name and lines.
SofamLines ==
    << <<"#", "define", " ", "SOFA", "MHDEF", "\n">>,
       <<"#", "define", " ", "DPI", " (3.14)\n">>,
       <<"#", "define", " ", "SOFA", " 1\n">> >>
SofamOldLines ==
    << <<"  ", "#", " ", "define", "  ", "dint", "(", "A", ") (", "A", ")\n">>,
       <<"/* ", "#", "define", " ", "X", "\n">> >>
SofaHLines == <<HDefine, HFilePart, HDecl, HDashed, HStuff>>
UpperHLines == <<HDoc, HDecl>>
CalLines ==
    <<CFuncDef, CRevision, CClose,
      <<"   x = ", "DPI", " + ", "DPI", "X", " + ", "dint", "(1);\n">>,
      CDashed, <<"stuff", "\n">> >>
TestLines ==
    << ReleaseMarker \o <<" 2021\n">>, CClose,
       <<"   ", "iau", "Foo", "(", "DPI", ");\n">> >>

Entries ==
    { [name |-> <<"src", "/", "sofa", "m", ".h">>, lines |-> SofamLines],
      [name |-> <<"old", "/", "sofa", "m", ".h">>, lines |-> SofamOldLines],
      [name |-> <<"src", "/", "sofa", ".h">>, lines |-> SofaHLines],
      [name |-> <<"src", "/", "SOFA", ".h">>, lines |-> UpperHLines],
      [name |-> <<"src", "/", "cal", ".c">>, lines |-> CalLines],
      [name |-> <<"src", "/", "t_", "sofa", "_c", ".c">>, lines |-> TestLines],
      [name |-> <<"src", "/", "makefile">>, lines |-> <<HStuff>>] }

LibNames == {"erfa", "foo"}

\* No rewriter call is traced on its own while the pipeline runs.
RwIdle ==
    /\ kind = "none" /\ inlns = <<>> /\ pos = 0 /\ pc = "idle"
    /\ outlns = <<>> /\ inhdr = FALSE /\ insofapart = FALSE
    /\ replacedprefix = FALSE /\ replacedspacedprefix = FALSE
    /\ incopyright = FALSE /\ donewheader = FALSE /\ broke = FALSE
    /\ error = FALSE /\ trace = <<>>

PInit ==
    /\ libname \in LibNames /\ func_prefix = "era" /\ verbose \in BOOLEAN
    /\ inlinetemplate \in InlineTemplates /\ endtemplate \in EndTemplates
    /\ tfn \in BSeq(Entries, MaxEntries)
    /\ ti = 0 /\ ppc = "start" /\ macros = <<>>
    /\ filecontents = <<>> /\ fileorder = <<>> /\ dirExists = FALSE
    /\ repls = <<>> /\ widx = 0 /\ audited = <<>> /\ written = <<>>
    /\ RwIdle

\* Lines 122-129: rendering a license raises; the call is left before the
\* archive is opened.
PRaise ==
    /\ ppc = "start"
    /\ format_raises(inlinetemplate) \/ format_raises(endtemplate)
    /\ ppc' = "raised"
    /\ UNCHANGED <<tfn, ti, macros, filecontents, fileorder, dirExists, repls,
                   widx, audited, written, cfgvars, rwvars>>

\* Lines 122-136: the licenses are rendered and the archive is opened.
POpen ==
    /\ ppc = "start"
    /\ ~format_raises(inlinetemplate) /\ ~format_raises(endtemplate)
    /\ ppc' = "scan"
    /\ UNCHANGED <<tfn, ti, macros, filecontents, fileorder, dirExists, repls,
                   widx, audited, written, cfgvars, rwvars>>

\* Lines 138-165: one pass of the loop over the archive.
PScan ==
    /\ ppc = "scan" /\ ti < Len(tfn)
    /\ LET e == tfn[ti + 1]
           k == classify(e.name)
           filename == output_name(e.name, libname)
       IN /\ macros' = scan_macros(macros, e.name, e.lines)
          /\ IF k = "other"
             THEN UNCHANGED <<filecontents, fileorder>>
             ELSE /\ filecontents' =
                        (filename :> rewrite(k, e.lines, func_prefix, libname,
                                             InlineLicense))
                        @@ filecontents
                  /\ fileorder' = IF filename \in DOMAIN filecontents
                                  THEN fileorder
                                  ELSE Append(fileorder, filename)
    /\ ti' = ti + 1
    /\ UNCHANGED <<tfn, ppc, dirExists, repls, widx, audited, written,
                   cfgvars, rwvars>>

\* Lines 167-186: the archive is exhausted; the directory is made if it is
\* not there and the macro patterns are compiled.
PMkdir ==
    /\ ppc = "scan" /\ ti = Len(tfn)
    /\ dirExists' = TRUE
    /\ repls' = compile_repls(macros)
    /\ ppc' = "write"
    /\ UNCHANGED <<tfn, ti, macros, filecontents, fileorder, widx, audited,
                   written, cfgvars, rwvars>>

\* Lines 188-204: one pass of the loop over filecontents.items().
PWrite ==
    /\ ppc = "write" /\ widx < Len(fileorder)
    /\ LET fn == fileorder[widx + 1]
           lines == filecontents[fn]
       IN /\ audited' =
                IF verbose
                THEN (fn :> [lns |-> audit_arg(lines, repls),
                             warned |-> check_for_sofa(audit_arg(lines, repls))])
                     @@ audited
                ELSE audited
          /\ written' =
                (fn :> file_text(lines, repls, EndLicense(libname))) @@ written
    /\ widx' = widx + 1
    /\ UNCHANGED <<tfn, ti, ppc, macros, filecontents, fileorder, dirExists,
                   repls, cfgvars, rwvars>>

\* Lines 206-207: every file is written; the archive is closed.
PClose ==
    /\ ppc = "write" /\ widx = Len(fileorder)
    /\ ppc' = "done"
    /\ UNCHANGED <<tfn, ti, macros, filecontents, fileorder, dirExists, repls,
                   widx, audited, written, cfgvars, rwvars>>

PNext == PRaise \/ POpen \/ PScan \/ PMkdir \/ PWrite \/ PClose

SpecP == PInit /\ [][PNext]_vars

----------------------------------------------------------------------------
\* Properties of the Implementation rewriter (checked under SpecC).

Last(s) == s[Len(s)]
CloseBrace == <<"}", "\n">>

\* C1, as stated: whenever the rewriter has just read a line that begins
\* with the dashed-rule marker, it has stopped and the last output line is
\* the closing brace.
C1_AsStated ==
    (kind = "c" /\ pos >= 1 /\ StartsWith(inlns[pos], DashedRule))
        => (broke /\ outlns # <<>> /\ Last(outlns) = CloseBrace)

\* C1, amended: a line that begins with the dashed-rule marker and is read
\* outside the header, the disclaimer and the copyright block, and is not
\* taken by the one-shot letter-spaced prefix rule, appends the closing brace
\* and ends the loop; from then on no line is read and the output, whose
\* last line is the closing brace, does not change.
C1_Truncation ==
    [][ /\ ( /\ kind = "c" /\ pos' = pos + 1
             /\ StartsWith(inlns[pos + 1], DashedRule)
             /\ ~inhdr /\ ~insofapart /\ ~incopyright
             /\ (replacedspacedprefix \/ ~Contains(inlns[pos + 1], "i a u")) )
           => (broke' /\ outlns' = Append(outlns, CloseBrace))
        /\ (kind = "c" /\ broke)
           => (pos' = pos /\ outlns' = outlns /\ broke'
               /\ Last(outlns') = CloseBrace) ]_vars

\* C1 witness: the call has returned after the marker rule fired, with
\* input lines left unread behind the marker.
C1_Witness ==
    /\ kind = "c" /\ pc = "returned" /\ broke
    /\ pos < Len(inlns)
    /\ trace[pos] = "dashed"
    /\ Last(outlns) = CloseBrace

\* Number of lines read so far that the header-ending rule took.
HdrEndCount == Cardinality({k \in 1..Len(trace) : trace[k] = "hdr_end"})

\* C2, as stated: in every finished call exactly one line was taken by the
\* header-ending prefix substitution.
C2_AsStated ==
    (kind = "c" /\ pc = "returned") => HdrEndCount = 1

\* C2, amended: at most one line is taken by the header-ending prefix
\* substitution, namely the first line that contains the prefix token (so
\* exactly one as soon as such a line has been read, none before); every
\* later line containing the token is taken by another rule.
C2_HeaderEndOnce ==
    kind = "c" =>
        /\ HdrEndCount <= 1
        /\ \A k \in 1..pos :
              (trace[k] = "hdr_end") <=>
                  /\ Contains(inlns[k], "iau")
                  /\ \A j \in 1..(k - 1) : ~Contains(inlns[j], "iau")

\* C2 witness: the header-ending rule took one line and a later line with
\* the token was rewritten by the body rule.
C2_Witness ==
    /\ kind = "c" /\ pc = "returned"
    /\ \E k \in 1..pos : \E j \in (k + 1)..pos :
          /\ trace[k] = "hdr_end"
          /\ Contains(inlns[j], "iau") /\ trace[j] = "body"
          /\ Contains(outlns[Len(outlns)], "era")

----------------------------------------------------------------------------
\* Properties of the Header rewriter (checked under SpecH).

\* None of the first k input lines is the attribution sentinel.
NoSentinel(k) == \A j \in 1..k : ~StartsWith(inlns[j], FilePartMarker)

\* A comment line with only the project name substituted: the letter-spaced
\* name if the line has it, otherwise the upper-case name.
DocSubst(ln) ==
    IF \E i \in 1..Len(ln) : ln[i] = "s o f a"
    THEN [i \in 1..Len(ln) |-> IF ln[i] = "s o f a" THEN "e r f a" ELSE ln[i]]
    ELSE [i \in 1..Len(ln) |-> IF ln[i] = "SOFA" THEN "ERFA" ELSE ln[i]]

\* C3: while no line read so far is the attribution sentinel, the output
\* does not contain the inline license block, every line read has yielded
\* exactly one output line, and the output line of every line that begins
\* with '**' is that line with only the project name substituted.
C3_NoSentinelPassThrough ==
    (kind = "h" /\ NoSentinel(pos)) =>
        /\ \A i \in 1..Len(outlns) : outlns[i] # InlineLicense
        /\ Len(outlns) = pos
        /\ \A k \in 1..pos :
              StartsWith(inlns[k], DocMarker) => outlns[k] = DocSubst(inlns[k])

\* C3 witness: a finished call on a header without the sentinel that passed
\* through a comment line with the upper-case name and one with the
\* letter-spaced name.
C3_Witness ==
    /\ kind = "h" /\ pc = "returned" /\ NoSentinel(Len(inlns))
    /\ \E k \in 1..pos :
          /\ inlns[k] = HDoc
          /\ outlns[k] = <<"**", "  ", "ERFA", " and ", "sofa", " notes\n">>
    /\ \E k \in 1..pos :
          /\ inlns[k] = HSpaced
          /\ outlns[k] = <<"**", "  ", "e r f a", " ", "SOFA", "\n">>

\* Index of the first input line that begins with the dashed-rule marker,
\* or Len(inlns) + 1 if there is none.
FirstDashed ==
    LET D == {k \in 1..Len(inlns) : StartsWith(inlns[k], DashedRule)}
    IN IF D = {} THEN Len(inlns) + 1
       ELSE CHOOSE k \in D : \A j \in D : k <= j

\* C10: the Header rewriter never reads past the first line that begins
\* with the dashed-rule marker; reading that line appends one blank line to
\* what the lines before it produced and ends the loop, and the returned
\* output is that of the input cut at the marker.
C10_HeaderTruncation ==
    kind = "h" =>
        /\ pos <= FirstDashed
        /\ broke <=> (pos = FirstDashed)
        /\ broke =>
              outlns = Append(reprocess_sofa_h_lines(
                                  SubSeq(inlns, 1, pos - 1),
                                  func_prefix, libname, InlineLicense),
                              <<"\n">>)
        /\ pc = "returned" => (broke \/ pos = Len(inlns))

\* C10 witness: the example of the specification; 'stuff' is never read.
C10_Witness ==
    /\ kind = "h" /\ pc = "returned"
    /\ inlns = <<HDefine, HFilePart, HDecl, HDashed, HStuff>>
    /\ pos = 4
    /\ outlns = << <<"#", "define", " ", "ERFA", "_VERSION", " 1\n">>,
                   InlineLicense,
                   <<"void ", "era", "Foo", "(void);\n">>,
                   <<"\n">> >>

----------------------------------------------------------------------------
\* Properties of reprocess_sofa_tarfile (checked under SpecP).

Range(q) == {q[i] : i \in 1..Len(q)}

\* What was written to file fn before the end license.
BodyOf(fn) ==
    SubSeq(written[fn], 1, Len(written[fn]) - Len(EndLicense(libname)))

\* The name M stands as a whole word at position i of text.
StandaloneAt(text, M, i) ==
    /\ M # <<>>
    /\ i + Len(M) - 1 <= Len(text)
    /\ \A j \in 1..Len(M) : text[i + j - 1] = M[j]
    /\ (i = 1 \/ ~EndsWord(text[i - 1]))
    /\ (i + Len(M) > Len(text) \/ ~StartsWord(text[i + Len(M)]))

StandaloneIn(text, M) == \E i \in 1..Len(text) : StandaloneAt(text, M, i)

\* text from position i on, with every whole-word occurrence of a name of
\* the set ms replaced by pre, '_' and the name in upper case.
RECURSIVE PrefixedFrom(_, _, _, _)
PrefixedFrom(text, i, ms, pre) ==
    IF i > Len(text) THEN <<>>
    ELSE LET hits == {M \in ms : StandaloneAt(text, M, i)} IN
         IF hits = {}
         THEN <<text[i]>> \o PrefixedFrom(text, i + 1, ms, pre)
         ELSE LET M == CHOOSE N \in hits : TRUE
              IN <<pre, "_">> \o [j \in 1..Len(M) |-> Upper(M[j])]
                 \o PrefixedFrom(text, i + Len(M), ms, pre)

\* The kind of an entry by its name, as the data model of the
\* specification gives it.
KindOfName(name) ==
    LET n == Len(name) IN
    IF n >= 4 /\ name[n - 3] = "t_" /\ name[n - 2] = "sofa"
       /\ name[n - 1] = "_c" /\ name[n] = ".c" THEN "Test"
    ELSE IF n >= 1 /\ name[n] = ".h" THEN "Header"
    ELSE IF n >= 1 /\ name[n] = ".c" THEN "Implementation"
    ELSE "Other"

\* The entries among the first n of the archive that are not Other.
NonOther(n) == {k \in 1..n : KindOfName(tfn[k].name) # "Other"}

\* The part of a name behind its last '/'.
BaseOfName(name) ==
    LET S == {i \in 1..Len(name) : name[i] = "/"} IN
    IF S = {} THEN name
    ELSE SubSeq(name, (CHOOSE i \in S : \A j \in S : j <= i) + 1, Len(name))

\* The base name with the lower-case token 'sofa' replaced.
NameLowerReplaced(name) ==
    LET b == BaseOfName(name) IN
    [i \in 1..Len(b) |-> IF b[i] = "sofa" THEN Lower(libname) ELSE b[i]]

\* The base name with the token replaced whatever its case.
NameAnyCaseReplaced(name) ==
    LET b == BaseOfName(name) IN
    [i \in 1..Len(b) |->
        IF b[i] \in {"sofa", "SOFA", "Sofa"} THEN libname ELSE b[i]]

\* The entry is a macro-definitions header (its name ends 'sofam.h').
IsMacroHeader(k) ==
    LET name == tfn[k].name
        n == Len(name)
    IN n >= 3 /\ name[n - 2] = "sofa" /\ name[n - 1] = "m" /\ name[n] = ".h"

\* The names a header defines on lines of the plain form '#define NAME ...',
\* the header guard excepted.
PlainDefines(lines) ==
    {<<ln[4]>> : ln \in {l \in Range(lines) :
        /\ Len(l) >= 5
        /\ l[1] = "#" /\ l[2] = "define" /\ l[3] = " "
        /\ l[4] \in WordAtoms /\ l[5] \notin WordAtoms}}

\* C4: a file is written, and so a macro substituted, only after the whole
\* archive has been scanned; the registry then holds the names defined by
\* the last macro-definitions header wherever it stood in the archive, and
\* no written artifact has a whole-word occurrence of a registry name left.
C4_ExtractionBeforeSubstitution ==
    \A fn \in DOMAIN written :
        /\ ti = Len(tfn) /\ ppc \in {"write", "done"}
        /\ repls = macros
        /\ \A k \in 1..Len(tfn) :
              (IsMacroHeader(k) /\ \A j \in (k + 1)..Len(tfn) : ~IsMacroHeader(j))
                  => PlainDefines(tfn[k].lines) \subseteq Range(macros)
        /\ \A M \in Range(macros) : ~StandaloneIn(BodyOf(fn), M)

\* C4 witness: the macro-definitions header is the last entry and the
\* artifact scanned before it is written with its macro prefixed.
C4_Witness ==
    /\ ppc = "done" /\ Len(tfn) >= 2
    /\ IsMacroHeader(Len(tfn)) /\ ~IsMacroHeader(1)
    /\ <<"DPI">> \in Range(macros)
    /\ \E fn \in DOMAIN written :
          /\ fn = NameLowerReplaced(tfn[1].name)
          /\ StandaloneIn(Join(filecontents[fn]), <<"DPI">>)
          /\ \E i \in 1..(Len(BodyOf(fn)) - 2) :
                SubSeq(BodyOf(fn), i, i + 2) = <<"ERFA", "_", "DPI">>

\* C5, as stated: the body of every written file is the assembled text with
\* each whole-word occurrence of each macro name M replaced by
\* upper(libname) + '_' + upper(M), other text unchanged.
C5_AsStated ==
    \A fn \in DOMAIN written :
        BodyOf(fn) = PrefixedFrom(Join(filecontents[fn]), 1, Range(macros),
                                  Upper(libname))

Count(text, a) == Cardinality({i \in 1..Len(text) : text[i] = a})

\* C7: every written file is the joined lines its rewriter returned, with
\* the macros prefixed in that text only, followed by the end license as
\* rendered: the license stands in the file once, none of its words is
\* prefixed, and it is not among the lines given to the auditor.
C7_PrefixOnceThenLicense ==
    \A fn \in DOMAIN written :
        /\ written[fn] =
              PrefixedFrom(Join(filecontents[fn]), 1, Range(repls), "ERFA")
              \o EndLicense(libname)
        /\ Count(written[fn], Dashes70) = 1
        /\ fn \in DOMAIN audited =>
              /\ Len(audited[fn].lns) = Len(filecontents[fn])
              /\ Count(Join(audited[fn].lns), Dashes70) = 0

\* C7 witness: SOFA is a macro; it is prefixed in the inline license of the
\* body and left as it is in the end license.
C7_Witness ==
    \E fn \in DOMAIN written :
        /\ <<"SOFA">> \in Range(repls)
        /\ StandaloneIn(Join(filecontents[fn]), <<"SOFA">>)
        /\ ~StandaloneIn(BodyOf(fn), <<"SOFA">>)
        /\ StandaloneIn(written[fn], <<"SOFA">>)
        /\ fn \in DOMAIN audited

\* C8, as stated: the artifacts stored, and in the end written, are as many
\* as the entries that are not Other.
C8_AsStated ==
    /\ Cardinality(DOMAIN filecontents) = Cardinality(NonOther(ti))
    /\ ppc = "done" => Cardinality(DOMAIN written) = Cardinality(NonOther(Len(tfn)))

\* C8, amended: every entry that is not Other yields one rewritten artifact,
\* stored under its output name in place of any artifact stored under that
\* name before, and every other entry yields none; the artifacts stored,
\* and in the end written, are as many as the distinct output names of the
\* entries that are not Other, each the output of the rewriter of its kind
\* on the last entry with that output name.
C8_OnePerOutputName ==
    LET names(n) == {NameLowerReplaced(tfn[k].name) : k \in NonOther(n)} IN
    /\ Cardinality(DOMAIN filecontents) = Cardinality(names(ti))
    /\ Len(fileorder) = Cardinality(names(ti))
    /\ Range(fileorder) = DOMAIN filecontents
    /\ Cardinality(DOMAIN written) = widx
    /\ ppc = "done" => Cardinality(DOMAIN written) = Cardinality(names(Len(tfn)))
    /\ \A fn \in DOMAIN filecontents :
          LET K == {k \in NonOther(ti) : NameLowerReplaced(tfn[k].name) = fn}
              k == CHOOSE i \in K : \A j \in K : j <= i
              e == tfn[k]
          IN filecontents[fn] =
                CASE KindOfName(e.name) = "Test" ->
                        reprocess_sofa_test_lines(e.lines, func_prefix, libname,
                                                  InlineLicense)
                  [] KindOfName(e.name) = "Header" ->
                        reprocess_sofa_h_lines(e.lines, func_prefix, libname,
                                               InlineLicense)
                  [] KindOfName(e.name) = "Implementation" ->
                        reprocess_sofa_c_lines(e.lines, func_prefix, libname,
                                               InlineLicense)

\* C8 witness: two entries that are not Other share an output name, an
\* Other entry is skipped, and one file is written.
C8_Witness ==
    /\ ppc = "done" /\ Len(tfn) = 3
    /\ Cardinality(NonOther(3)) = 2
    /\ Cardinality(DOMAIN written) = 1

\* C9, as stated: every artifact is stored under its base name with the
\* project token replaced by the library name whatever the token's case.
C9_AsStated ==
    \A k \in NonOther(ti) : NameAnyCaseReplaced(tfn[k].name) \in DOMAIN filecontents

\* C9, amended: every artifact is stored under its base name with every
\* occurrence of the lower-case token 'sofa' replaced by the library name in
\* lower case; 'SOFA' and 'Sofa' in a name are left as they are.
C9_LowerCaseTokenOnly ==
    /\ \A k \in NonOther(ti) : NameLowerReplaced(tfn[k].name) \in DOMAIN filecontents
    /\ \A fn \in DOMAIN filecontents :
          \E k \in NonOther(ti) : fn = NameLowerReplaced(tfn[k].name)

\* C9 witness: 'sofam.h' is stored under the library's name and 'SOFA.h'
\* under its own.
C9_Witness ==
    /\ ppc = "done"
    /\ <<Lower(libname), "m", ".h">> \in DOMAIN written
    /\ <<"SOFA", ".h">> \in DOMAIN written

----------------------------------------------------------------------------
\* Further properties of the Implementation rewriter (checked under SpecC).

\* Number of the three state flags that are set.
FlagCount ==
    (IF inhdr THEN 1 ELSE 0) + (IF insofapart THEN 1 ELSE 0)
        + (IF incopyright THEN 1 ELSE 0)

\* C11, as stated: in every state of a call at most one of inhdr,
\* insofapart and incopyright is true.
C11_AsStated == kind = "c" => FlagCount <= 1

\* C11, amended: while inhdr is true neither insofapart nor incopyright is
\* true; insofapart and incopyright are both true only after a line that
\* begins the disclaimer sentinel has been read behind a 'This revision:'
\* line, that is, inside the copyright block.
C11_HeaderExcludesOthers ==
    kind = "c" =>
        /\ inhdr => (~insofapart /\ ~incopyright)
        /\ (insofapart /\ incopyright) =>
              \E j \in 1..pos : \E k \in (j + 1)..pos :
                  /\ StartsWith(inlns[j], RevisionMarker)
                  /\ StartsWith(inlns[k], FunctionPartMarker)
                  /\ trace[j] = "revision" /\ trace[k] = "sofapart_enter"

\* C11 witness: the disclaimer sentinel was read inside the copyright block
\* and both flags are set, outside the header.
C11_Witness ==
    /\ kind = "c" /\ pos >= 1 /\ trace[pos] = "sofapart_enter"
    /\ ~inhdr /\ insofapart /\ incopyright

\* C12, as stated: a line read while incopyright is true is dropped, unless
\* it starts with the closing-comment marker; that line is emitted and
\* clears incopyright.
C12_AsStated ==
    [][ (kind = "c" /\ incopyright /\ pos' = pos + 1) =>
            IF StartsWith(inlns[pos + 1], CloseComment)
            THEN outlns' = Append(outlns, inlns[pos + 1]) /\ ~incopyright'
            ELSE outlns' = outlns /\ incopyright' ]_vars

\* C12, amended: a line read while incopyright is true is dropped and leaves
\* incopyright set, with two exceptions.  The first line of the call that
\* contains the letter-spaced prefix, read outside the disclaimer and not
\* beginning the disclaimer sentinel or a 'Status:' annotation, is emitted
\* with the prefix substituted and leaves incopyright set.  A line that
\* starts with the closing-comment marker, read outside the disclaimer and
\* not taken by the letter-spaced prefix rule, is emitted unchanged and
\* clears incopyright.
C12_CopyrightBlockDrops ==
    [][ (kind = "c" /\ incopyright /\ pos' = pos + 1) =>
            LET ln == inlns[pos + 1] IN
            IF \/ insofapart
               \/ StartsWith(ln, FunctionPartMarker)
               \/ StartsWith(ln, StatusMarker)
            THEN outlns' = outlns /\ incopyright'
            ELSE IF ~replacedspacedprefix /\ Contains(ln, "i a u")
            THEN /\ outlns' = Append(outlns, Replace(ln, "i a u", "e r a"))
                 /\ incopyright'
            ELSE IF StartsWith(ln, CloseComment)
            THEN outlns' = Append(outlns, ln) /\ ~incopyright'
            ELSE outlns' = outlns /\ incopyright' ]_vars

\* C12 witness: behind the 'This revision:' line and its license block one
\* line was dropped and the closing line was emitted.
C12_Witness ==
    /\ kind = "c" /\ pc = "returned" /\ ~incopyright
    /\ trace = <<"hdr_end", "revision", "copyright", "copyright">>
    /\ ~StartsWith(inlns[3], CloseComment)
    /\ outlns = <<Replace(inlns[1], "iau", "era"), inlns[2], <<"**", "\n">>,
                  InlineLicense, inlns[4]>>

\* The next line is one that the 'This revision:' rule handles: it begins
\* with the sentinel, is read outside the header, the disclaimer and the
\* copyright block, and is not taken by the letter-spaced prefix rule.
RevisionHandled ==
    /\ kind = "c" /\ pos' = pos + 1
    /\ StartsWith(inlns[pos + 1], RevisionMarker)
    /\ ~inhdr /\ ~insofapart /\ ~incopyright
    /\ (replacedspacedprefix \/ ~Contains(inlns[pos + 1], "i a u"))

\* C13, as stated: the 'This revision:' rule sets incopyright and emits the
\* line and, directly behind it, the inline license block.
C13_AsStated ==
    [][ RevisionHandled =>
            /\ incopyright'
            /\ outlns' = outlns \o <<inlns[pos + 1], InlineLicense>> ]_vars

\* C13, amended: the 'This revision:' rule sets incopyright and emits three
\* elements: the line itself, a bare comment-continuation line, and the
\* inline license block, with nothing else between or behind them.
C13_RevisionThenLicense ==
    [][ RevisionHandled =>
            /\ incopyright'
            /\ outlns' = outlns \o
                   <<inlns[pos + 1], <<"**", "\n">>, InlineLicense>> ]_vars

\* C13 witness: the rule has just handled a 'This revision:' line.
C13_Witness ==
    /\ kind = "c" /\ pos >= 2 /\ trace[pos] = "revision" /\ incopyright
    /\ Len(outlns) >= 4
    /\ outlns[Len(outlns) - 2] = inlns[pos]
    /\ outlns[Len(outlns)] = InlineLicense

\* C14: a line that begins with 'Status:' and is read outside the header
\* and outside the disclaimer is not emitted and raises no error; if the
\* last emitted line is a bare comment-continuation marker, the output
\* loses exactly that line, otherwise the output is unchanged.  No flag
\* changes.
C14_StatusRetraction ==
    [][ ( /\ kind = "c" /\ pos' = pos + 1
          /\ StartsWith(inlns[pos + 1], StatusMarker)
          /\ ~inhdr /\ ~insofapart )
        => /\ ~error'
           /\ outlns # <<>>
           /\ IF Last(outlns) \in {CBare, <<"**">>}
              THEN outlns' = SubSeq(outlns, 1, Len(outlns) - 1)
              ELSE outlns' = outlns
           /\ UNCHANGED <<inhdr, insofapart, incopyright, replacedprefix,
                          replacedspacedprefix, broke>> ]_vars

\* C14 witness: a bare marker line was emitted and the 'Status:' line read
\* next removed it, leaving only the function definition line.
C14_Witness ==
    /\ kind = "c" /\ pos = 3
    /\ inlns[2] = CBare /\ trace[2] = "body"
    /\ StartsWith(inlns[3], StatusMarker) /\ trace[3] = "status"
    /\ outlns = <<Replace(inlns[1], "iau", "era")>>

----------------------------------------------------------------------------
\* Further properties of the Header rewriter (checked under SpecH).

\* Number of output elements that are the inline license block.
LicenseCount(out) == Cardinality({i \in 1..Len(out) : out[i] = InlineLicense})

\* A preprocessor line with the project name replaced in both cases.
HashSubst(ln) ==
    [i \in 1..Len(ln) |-> IF ln[i] = "SOFA" THEN "ERFA"
                          ELSE IF ln[i] = "sofa" THEN "erfa" ELSE ln[i]]

\* An ordinary line with the function-name token replaced.
PrefixSubst(ln) ==
    [i \in 1..Len(ln) |-> IF ln[i] = "iau" THEN "era" ELSE ln[i]]

\* C15: the attribution sentinel sets donewheader, which is never cleared;
\* with donewheader set, a line that begins with the comment marker is
\* dropped, a line that begins with '#' is emitted with the project name
\* replaced, and an ordinary line (none of the markers) is emitted with the
\* function prefix replaced; the output holds the inline license block at
\* most once.
C15_DropAfterHeaderDone ==
    [][ (kind = "h" /\ pos' = pos + 1) =>
            LET ln == inlns[pos + 1] IN
            /\ LicenseCount(outlns') <= 1
            /\ (~donewheader /\ donewheader') =>
                  (StartsWith(ln, FilePartMarker)
                      /\ outlns' = Append(outlns, InlineLicense))
            /\ donewheader =>
                  /\ donewheader'
                  /\ StartsWith(ln, DocMarker) => outlns' = outlns
                  /\ StartsWith(ln, <<"#">>) =>
                        outlns' = Append(outlns, HashSubst(ln))
                  /\ ( /\ ~StartsWith(ln, DocMarker)
                       /\ ~StartsWith(ln, <<"#">>)
                       /\ ~StartsWith(ln, DashedRule) ) =>
                        outlns' = Append(outlns, PrefixSubst(ln)) ]_vars

\* C15 witness: behind the sentinel a second sentinel line was dropped, and
\* a preprocessor line and a declaration were rewritten and emitted.
C15_Witness ==
    /\ kind = "h" /\ pc = "returned" /\ donewheader
    /\ trace = <<"doc_license", "doc_drop", "hash", "other">>
    /\ StartsWith(inlns[2], FilePartMarker)
    /\ outlns = <<InlineLicense, HashSubst(inlns[3]), PrefixSubst(inlns[4])>>
    /\ outlns[2] # inlns[3] /\ outlns[3] # inlns[4]

----------------------------------------------------------------------------
\* Properties of the Test rewriter (checked under SpecT).

\* A line with the three replacements of every emitted line.
TestSubst(ln) ==
    [i \in 1..Len(ln) |-> IF ln[i] = "iau" THEN "era"
                          ELSE IF ln[i] = "sofa" THEN "erfa"
                          ELSE IF ln[i] = "SOFA" THEN "ERFA" ELSE ln[i]]

\* C16: behind the header, a line that begins with the dashed-rule marker
\* ends the loop and appends nothing; once the loop has ended no line is
\* read and the output does not change, so the lines behind the marker have
\* no influence on the output.
C16_TestTruncation ==
    [][ /\ ( /\ kind = "t" /\ pos' = pos + 1 /\ ~inhdr
             /\ StartsWith(inlns[pos + 1], DashedRule) )
           => (broke' /\ outlns' = outlns)
        /\ (kind = "t" /\ broke)
           => (pos' = pos /\ outlns' = outlns /\ broke') ]_vars

\* C16 witness: the call has returned after the marker ended the loop, with
\* a line left unread behind the marker and the lines before it emitted.
C16_Witness ==
    /\ kind = "t" /\ pc = "returned" /\ broke
    /\ pos < Len(inlns) /\ pos >= 3
    /\ trace[pos] = "dashed" /\ trace[pos - 1] = "body"
    /\ outlns # <<>> /\ Last(outlns) = TestSubst(inlns[pos - 1])

\* C17: in the header, the release sentinel and every line read behind it
\* is dropped as long as it does not begin with the closing-comment marker;
\* the first line behind the sentinel that begins with the marker is emitted
\* unchanged and clears inhdr and insofapart; outside the header both flags
\* stay false.
C17_ReleaseNotice ==
    [][ (kind = "t" /\ pos' = pos + 1) =>
            LET ln == inlns[pos + 1] IN
            /\ ( /\ inhdr
                 /\ (insofapart \/ StartsWith(ln, ReleaseMarker))
                 /\ ~StartsWith(ln, CloseComment) )
               => (outlns' = outlns /\ inhdr' /\ insofapart')
            /\ (inhdr /\ insofapart /\ StartsWith(ln, CloseComment))
               => (outlns' = Append(outlns, ln) /\ ~inhdr' /\ ~insofapart')
            /\ ~inhdr => (~insofapart /\ ~inhdr' /\ ~insofapart') ]_vars

\* C17 witness: the sentinel and a notice line were dropped, the closing
\* line was emitted unchanged, and a later sentinel line, read outside the
\* header, was emitted as a body line.
C17_Witness ==
    /\ kind = "t" /\ pc = "returned" /\ ~inhdr /\ ~insofapart
    /\ trace = <<"hdr_emit", "release_drop", "release_drop", "release_close",
                 "body">>
    /\ StartsWith(inlns[2], ReleaseMarker)
    /\ StartsWith(inlns[5], ReleaseMarker)
    /\ inlns[4] = TCloseNote
    /\ outlns = <<TestSubst(inlns[1]), inlns[4], TestSubst(inlns[5])>>

----------------------------------------------------------------------------
\* Further properties of the pipeline (checked under SpecP).

----------------------------------------------------------------------------
\* Properties of all three rewriters (checked under SpecR).

TemplateUnresolved ==
    \/ \E i \in 1..Len(inlinetemplate) : inlinetemplate[i] = "{author}"
    \/ \E i \in 1..Len(endtemplate) : endtemplate[i] = "{author}"

\* C20: in a run with a license template that has a field which cannot be
\* resolved, the archive is never opened or read, the output directory is
\* not made and no file is written: the run is at its start or has raised,
\* and once it has raised nothing changes.
C20_RenderFailureAtomic ==
    [][ TemplateUnresolved =>
            /\ ppc \in {"start", "raised"} /\ ppc' = "raised"
            /\ ti' = 0 /\ filecontents' = <<>> /\ macros' = <<>>
            /\ ~dirExists' /\ written' = <<>> /\ audited' = <<>>
            /\ ppc = "start" ]_vars

\* C20 witness: a run over a non-empty archive has raised on the second
\* template, with nothing read, made or written.
C20_Witness ==
    /\ ppc = "raised" /\ tfn # <<>>
    /\ inlinetemplate = DEFAULT_INLINE_LICENSE_STR
    /\ endtemplate # DEFAULT_FILE_END_LICENSE_STR
    /\ ti = 0 /\ ~dirExists /\ written = <<>>

----------------------------------------------------------------------------
\* The 'Status:' retraction with any function prefix (checked under SpecS).

\* C21: with a function prefix that is not empty, outside the header the
\* output is not empty and no error is raised; a 'Status:' line handled by
\* the retraction rule finds a last emitted line to look at and leaves the
\* first element of the output where it is, however many 'Status:' lines
\* have been read before it.
C21_RetractionNeverEmpties ==
    [][ (kind = "c" /\ func_prefix # "" /\ pos' = pos + 1) =>
            /\ ~error'
            /\ ~inhdr' => outlns' # <<>>
            /\ ( /\ ~inhdr /\ ~insofapart
                 /\ StartsWith(inlns[pos + 1], StatusMarker) )
               => /\ outlns # <<>> /\ outlns' # <<>>
                  /\ outlns'[1] = outlns[1] ]_vars

\* C21 witness: with prefix 'era' the header ends on a line that is a bare
\* marker but for the token; a bare marker line behind it is removed by the
\* first of three 'Status:' lines in a row, and the first element is kept.
C21_Witness ==
    /\ kind = "c" /\ func_prefix = "era" /\ pc = "returned" /\ ~error
    /\ inlns = <<CBareDef, CBare, CStatus, CStatus, CStatus>>
    /\ trace = <<"hdr_end", "body", "status", "status", "status">>
    /\ outlns = << <<"**", "era", "\n">> >>

====
